---- MODULE Spec2Model ----
(***************************************************************************)
(* Model of the actuator node firmware (src/src/Actuador.ino): the         *)
(* discrete PI controller, the MQTT message decoder and the two FreeRTOS   *)
(* tasks (control_task, priority 3; mqtt_task, priority 2) that share the  *)
(* controller's global variables without a lock.                           *)
(*                                                                         *)
(* A C float is modelled as a decimal floating-point number: a signed      *)
(* mantissa of six significant decimal digits and a decimal exponent, with *)
(* the overflow threshold of binary32 (3.40282e38), the two infinities and *)
(* NaN.  Every arithmetic operator rounds its result to six digits,        *)
(* overflows to an infinity and propagates NaN as IEEE-754 does;           *)
(* comparisons with NaN are false.                                         *)
(***************************************************************************)
EXTENDS Integers, Sequences, FiniteSets, TLC

\* ------------------------------------------------------------------------
\* float
\* ------------------------------------------------------------------------

MantLo == 10^5
MantHi == 10^6

\* FLT_MAX = 3.40282e38 = 340282 * 10^33; below 10^-45 a float is zero.
FltMaxMant == 340282 + 0
FltMaxExp == 33 + 0
FltMinExp == 0 - 50

Abs(n) == IF n < 0 THEN 0 - n ELSE n
Sgn(n) == IF n < 0 THEN 0 - 1 ELSE IF n > 0 THEN 1 ELSE 0

NaN == [c |-> "nan", m |-> 0, e |-> 0]
Inf(s) == [c |-> "inf", m |-> s, e |-> 0]
PosInf == Inf(1)
NegInf == Inf(0 - 1)
Zero == [c |-> "fin", m |-> 0, e |-> 0]

\* the values of a float.  The arithmetic below is written as functions on
\* this set, so that an operand is a value before the operation reads it
Float == [c : {"fin", "inf", "nan"}, m : Int, e : Int]

\* magnitude n (0 <= n < 2^31) times 10^e, as <<mantissa, exponent>> with
\* the mantissa rounded to six digits
NormMag[n \in Nat, e \in Int] ==
  IF n = 0 THEN <<0, 0>>
  ELSE IF n >= MantHi THEN NormMag[(n + 5) \div 10, e + 1]
  ELSE IF n < MantLo THEN NormMag[n * 10, e - 1]
  ELSE <<n, e>>

\* the float nearest to m * 10^e
FNorm(mant, ex) ==
  LET nearest[m \in Int, e \in Int] ==
        LET p == NormMag[Abs(m), e]
        IN  IF p[1] = 0 THEN Zero
            ELSE IF p[2] > FltMaxExp \/ (p[2] = FltMaxExp /\ p[1] > FltMaxMant)
              THEN Inf(Sgn(m))
            ELSE IF p[2] < FltMinExp THEN Zero
            ELSE [c |-> "fin", m |-> Sgn(m) * p[1], e |-> p[2]]
  IN  nearest[mant, ex]

FInt(n) == FNorm(n, 0)
FDec(n, e) == FNorm(n, e)

isfinite(x) == x.c = "fin"
isnan(x) == x.c = "nan"

FNeg(x) == IF x.c = "nan" THEN NaN ELSE [x EXCEPT !.m = 0 - x.m]

\* n / p rounded to nearest, symmetric in the sign of n (p > 0)
RoundDiv(n, p) == Sgn(n) * ((Abs(n) + p \div 2) \div p)

\* sum of two finite non-zero floats, hi the one with the larger exponent
AddAligned(x, y) ==
  LET sum[hi \in Float, lo \in Float] ==
        LET d == hi.e - lo.e
        IN  IF d > 9 THEN hi
            ELSE LET h == hi.m * 1000
                     l == IF d <= 3 THEN lo.m * 10^(3 - d)
                          ELSE RoundDiv(lo.m, 10^(d - 3))
                 IN  FNorm(h + l, hi.e - 3)
  IN  sum[x, y]

FAdd(x, y) ==
  LET sum[a \in Float, b \in Float] ==
        IF a.c = "nan" \/ b.c = "nan" THEN NaN
        ELSE IF a.c = "inf" /\ b.c = "inf" THEN IF a.m = b.m THEN a ELSE NaN
        ELSE IF a.c = "inf" THEN a
        ELSE IF b.c = "inf" THEN b
        ELSE IF a.m = 0 THEN b
        ELSE IF b.m = 0 THEN a
        ELSE IF a.e >= b.e THEN AddAligned(a, b)
        ELSE AddAligned(b, a)
  IN  sum[x, y]

FSub(a, b) == FAdd(a, FNeg(b))

FMul(x, y) ==
  LET product[a \in Float, b \in Float] ==
        IF a.c = "nan" \/ b.c = "nan" THEN NaN
        ELSE IF a.c = "inf" \/ b.c = "inf"
          THEN IF a.m = 0 \/ b.m = 0 THEN NaN ELSE Inf(Sgn(a.m) * Sgn(b.m))
        ELSE IF a.m = 0 \/ b.m = 0 THEN Zero
        ELSE LET am == Abs(a.m)
                 bm == Abs(b.m)
                 q == am * (bm \div 1000) + (am * (bm % 1000)) \div 1000
             IN  FNorm(Sgn(a.m) * Sgn(b.m) * q, a.e + b.e + 3)
  IN  product[x, y]

FDiv(x, y) ==
  LET quotient[a \in Float, b \in Float] ==
        IF a.c = "nan" \/ b.c = "nan" THEN NaN
        ELSE IF a.c = "inf" THEN IF b.c = "inf" THEN NaN
                                 ELSE Inf(a.m * (IF b.m < 0 THEN 0 - 1 ELSE 1))
        ELSE IF b.c = "inf" THEN Zero
        ELSE IF b.m = 0 THEN IF a.m = 0 THEN NaN ELSE Inf(Sgn(a.m))
        ELSE IF a.m = 0 THEN Zero
        ELSE LET am == Abs(a.m)
                 bm == Abs(b.m)
                 q1 == (am * 1000) \div bm
                 r1 == (am * 1000) % bm
                 q2 == (r1 * 1000) \div bm
             IN  FNorm(Sgn(a.m) * Sgn(b.m) * (q1 * 1000 + q2), a.e - b.e - 6)
  IN  quotient[x, y]

\* a < b; false when either is NaN
FLt(x, y) ==
  LET less[a \in Float, b \in Float] ==
        IF a.c = "nan" \/ b.c = "nan" THEN FALSE
        ELSE LET ka == IF a.c = "inf" THEN [m |-> a.m, e |-> 999] ELSE [m |-> a.m, e |-> a.e]
                 kb == IF b.c = "inf" THEN [m |-> b.m, e |-> 999] ELSE [m |-> b.m, e |-> b.e]
                 sa == Sgn(ka.m)
                 sb == Sgn(kb.m)
             IN  IF sa # sb THEN sa < sb
                 ELSE IF sa = 0 THEN FALSE
                 ELSE IF sa > 0 THEN ka.e < kb.e \/ (ka.e = kb.e /\ ka.m < kb.m)
                 ELSE ka.e > kb.e \/ (ka.e = kb.e /\ ka.m < kb.m)
  IN  less[x, y]

FGt(a, b) == FLt(b, a)

\* a == b; false when either is NaN
FEq(a, b) == a.c # "nan" /\ b.c # "nan" /\ a = b
FLe(a, b) == IF a.c = "nan" \/ b.c = "nan" THEN FALSE ELSE ~FLt(b, a)

\* ------------------------------------------------------------------------
\* controller constants and pure functions
\* ------------------------------------------------------------------------

Tm == FInt(1)
SERVO_DEG_MIN == FInt(0)
SERVO_DEG_MAX == FInt(180)

scaleToDegrees(value) ==
  LET degrees[u \in Float] ==
        LET u1 == IF FLt(u, FInt(0)) THEN FInt(0) ELSE u
            u2 == IF FGt(u1, FInt(100)) THEN FInt(100) ELSE u1
            span == FSub(SERVO_DEG_MAX, SERVO_DEG_MIN)
        IN  FAdd(SERVO_DEG_MIN, FMul(FDiv(u2, FInt(100)), span))
  IN  degrees[value]

\* the value setServoDegrees stores in pos_deg
setServoDegrees(value) ==
  LET written[deg \in Float] ==
        LET d1 == IF FLt(deg, SERVO_DEG_MIN) THEN SERVO_DEG_MIN ELSE deg
        IN  IF FGt(d1, SERVO_DEG_MAX) THEN SERVO_DEG_MAX ELSE d1
  IN  written[value]

\* roundf of a float that is a number of small magnitude: the nearest
\* integer, halves away from zero
roundf(x) ==
  IF x.e >= 0 THEN x.m * 10^x.e
  ELSE IF 0 - x.e > 9 THEN 0
  ELSE RoundDiv(x.m, 10^(0 - x.e))

\* INT_MAX and the values that (int)roundf(deg) can take: the conversion of
\* NaN to int is undefined and yields some int
INT_MAX == 2147483647
IntOf(deg) ==
  IF isnan(deg) THEN {0 - 1, 0, INT_MAX} ELSE {roundf(deg)}

\* the arguments that line 384 can pass to servo.write for the value
\* stored in pos_deg
servoWrite(deg) == {180 - n : n \in IntOf(deg)}

\* recalculateCoefficients: the guard, T_factor and the two coefficients
CoefficientsValid(kp, ti) == ~(FLe(ti, FInt(0)) \/ FLe(kp, FInt(0)))
\* (TFactorWhole is Tm / Ti: what the scenario must tell apart from line 356)
TFactorWhole(ti) == FDiv(Tm, ti)
TFactor(ti) == FDiv(Tm, FMul(FInt(2), ti))
\* the first coefficient with the sign of T_factor flipped: what the
\* consistency property must tell apart from line 360
KposFlipped(kp, tf) == FMul(kp, FSub(FInt(1), tf))
KposOf(kp, tf) == FMul(kp, FAdd(FInt(1), tf))
\* the second coefficient with the sign of T_factor flipped: what the
\* coefficient property must tell apart from line 361
KnegFlipped(kp, tf) == FMul(FNeg(kp), FAdd(FInt(1), tf))
KnegOf(kp, tf) == FMul(FNeg(kp), FSub(FInt(1), tf))

\* ------------------------------------------------------------------------
\* message decoder (mqttCallback, first half)
\* ------------------------------------------------------------------------

\* a payload is a sequence of bytes 0..255
isDigit(b) == b >= 48 /\ b <= 57
isSpace(b) == b = 32 \/ (b >= 9 /\ b <= 13)
Min(a, b) == IF a < b THEN a ELSE b

\* the bytes the ASCII test of mqttCallback lets through: 0-9 . - + e E space
\* (IsTextByteNoExponent leaves e and E out: what the decoding-order
\* property must tell apart)
IsTextByteNoExponent(b) == isDigit(b) \/ b = 46 \/ b = 45 \/ b = 43 \/ b = 32
IsTextByte(b) ==
  isDigit(b) \/ b = 46 \/ b = 45 \/ b = 43 \/ b = 101 \/ b = 69 \/ b = 32

\* the isAsciiNumber flag: the first min(length, 64) bytes are all text bytes
isAsciiNumber(payload) ==
  \A i \in 1..Min(Len(payload), 64) : IsTextByte(payload[i])

\* String::trim: drop the white space at both ends
RECURSIVE TrimLeft(_)
TrimLeft(s) == IF s # <<>> /\ isSpace(Head(s)) THEN TrimLeft(Tail(s)) ELSE s
RECURSIVE TrimRight(_)
TrimRight(s) ==
  IF s # <<>> /\ isSpace(s[Len(s)]) THEN TrimRight(SubSeq(s, 1, Len(s) - 1)) ELSE s
trim(s) == TrimRight(TrimLeft(s))

\* first index from i on that holds no digit
RECURSIVE DigitRunEnd(_, _)
DigitRunEnd(s, i) ==
  IF i <= Len(s) /\ isDigit(s[i]) THEN DigitRunEnd(s, i + 1) ELSE i

\* the digits s[i..j-1] appended to the mantissa acc = <<value, scale>>; a
\* digit beyond the ninth significant one is dropped (an integer digit
\* dropped raises the scale, a fraction digit kept lowers it)
RECURSIVE AccDigits(_, _, _, _, _)
AccDigits(s, i, j, acc, frac) ==
  IF i >= j THEN acc
  ELSE LET d == s[i] - 48
           nxt == IF acc[1] < 10^8
                    THEN <<acc[1] * 10 + d, IF frac THEN acc[2] - 1 ELSE acc[2]>>
                    ELSE <<acc[1], IF frac THEN acc[2] ELSE acc[2] + 1>>
       IN  AccDigits(s, i + 1, j, nxt, frac)

\* value of the exponent digits s[i..j-1], capped
RECURSIVE AccExp(_, _, _, _)
AccExp(s, i, j, v) ==
  IF i >= j THEN v
  ELSE AccExp(s, i + 1, j, Min(v * 10 + (s[i] - 48), 9999))

\* String::toFloat, that is atof narrowed to float: the longest decimal
\* literal the text starts with, and 0.0 when it starts with none
toFloat(s) ==
  LET n == Len(s)
      neg == n >= 1 /\ s[1] = 45
      p0 == IF n >= 1 /\ (s[1] = 45 \/ s[1] = 43) THEN 2 ELSE 1
      p1 == DigitRunEnd(s, p0)
      dot == p1 <= n /\ s[p1] = 46
      p2 == IF dot THEN DigitRunEnd(s, p1 + 1) ELSE p1
      nDigits == (p1 - p0) + (IF dot THEN p2 - p1 - 1 ELSE 0)
      ipart == AccDigits(s, p0, p1, <<0, 0>>, FALSE)
      mant == IF dot THEN AccDigits(s, p1 + 1, p2, ipart, TRUE) ELSE ipart
      hasE == p2 <= n /\ (s[p2] = 101 \/ s[p2] = 69)
      eneg == hasE /\ p2 + 1 <= n /\ s[p2 + 1] = 45
      q0 == IF hasE /\ p2 + 1 <= n /\ (s[p2 + 1] = 45 \/ s[p2 + 1] = 43)
              THEN p2 + 2 ELSE p2 + 1
      q1 == IF hasE THEN DigitRunEnd(s, q0) ELSE q0
      ex == IF hasE /\ q1 > q0
              THEN (IF eneg THEN 0 - 1 ELSE 1) * AccExp(s, q0, q1, 0) ELSE 0
  IN  IF nDigits = 0 THEN Zero
      ELSE FNorm((IF neg THEN 0 - 1 ELSE 1) * mant[1], mant[2] + ex)

\* the index after the literal toFloat converts (strtod's end pointer); 1
\* when it converts nothing
LiteralEnd(s) ==
  LET n == Len(s)
      p0 == IF n >= 1 /\ (s[1] = 45 \/ s[1] = 43) THEN 2 ELSE 1
      p1 == DigitRunEnd(s, p0)
      dot == p1 <= n /\ s[p1] = 46
      p2 == IF dot THEN DigitRunEnd(s, p1 + 1) ELSE p1
      nDigits == (p1 - p0) + (IF dot THEN p2 - p1 - 1 ELSE 0)
      hasE == p2 <= n /\ (s[p2] = 101 \/ s[p2] = 69)
      q0 == IF hasE /\ p2 + 1 <= n /\ (s[p2 + 1] = 45 \/ s[p2 + 1] = 43)
              THEN p2 + 2 ELSE p2 + 1
      q1 == IF hasE THEN DigitRunEnd(s, q0) ELSE q0
  IN  IF nDigits = 0 THEN 1
      ELSE IF hasE /\ q1 > q0 THEN q1
      ELSE p2

\* the trimmed text is a floating-point literal from end to end
IsFloatLiteral(s) == s # <<>> /\ LiteralEnd(s) = Len(s) + 1

\* x times 2^k
RECURSIVE Scale2(_, _)
Scale2(x, k) ==
  IF k = 0 \/ x.c # "fin" \/ x.m = 0 THEN x
  ELSE IF k >= 10 THEN Scale2(FMul(x, FInt(1024)), k - 10)
  ELSE IF k > 0 THEN Scale2(FMul(x, FInt(2)), k - 1)
  ELSE IF k <= 0 - 10 THEN Scale2(FDiv(x, FInt(1024)), k + 10)
  ELSE Scale2(FDiv(x, FInt(2)), k + 1)

\* memcpy of 8 bytes into a double (little endian), narrowed to float.  The
\* twelve leading mantissa bits are kept, the rest is below the precision
\* of the model.
DoubleToFloat(p) ==
  LET sign == IF p[8] >= 128 THEN 0 - 1 ELSE 1
      ex == (p[8] % 128) * 16 + (p[7] \div 16)
      top == (p[7] % 16) * 256 + p[6]
      anyMant == top # 0 \/ \E i \in 1..5 : p[i] # 0
  IN  IF ex = 2047 THEN (IF anyMant THEN NaN ELSE Inf(sign))
      ELSE IF ex = 0 THEN Zero
      ELSE IF ex - 1023 > 127 THEN Inf(sign)
      ELSE IF ex - 1023 < 0 - 150 THEN Zero
      ELSE Scale2(FInt(sign * (4096 + top)), ex - 1023 - 12)

\* memcpy of 4 bytes into a float (little endian); the fifteen leading
\* mantissa bits are kept
BytesToFloat(p) ==
  LET sign == IF p[4] >= 128 THEN 0 - 1 ELSE 1
      ex == (p[4] % 128) * 2 + (p[3] \div 128)
      top == (p[3] % 128) * 256 + p[2]
      anyMant == top # 0 \/ p[1] # 0
  IN  IF ex = 255 THEN (IF anyMant THEN NaN ELSE Inf(sign))
      ELSE IF ex = 0 THEN Scale2(FInt(sign * top), 0 - 126 - 15)
      ELSE Scale2(FInt(sign * (32768 + top)), ex - 127 - 15)

\* the value mqttCallback works with and the branch that produced it, or
\* short = TRUE when it returns at "Longitud muy corta"
Decode(payload) ==
  IF isAsciiNumber(payload)
    THEN [short |-> FALSE, value |-> toFloat(trim(payload)), path |-> "text"]
  ELSE IF Len(payload) >= 8
    THEN [short |-> FALSE, value |-> DoubleToFloat(payload), path |-> "double"]
  ELSE IF Len(payload) >= 4
    THEN [short |-> FALSE, value |-> BytesToFloat(payload), path |-> "float"]
  ELSE [short |-> TRUE, value |-> NaN, path |-> "none"]

\* ------------------------------------------------------------------------
\* bounds and inputs
\* ------------------------------------------------------------------------

\* control periods that execute a step, messages delivered, and consecutive
\* skipped periods counted
MaxSamples == 7
MaxMsgs == 1
MaxSkips == 2

TOPIC_KP == "emu/kp_set"
TOPIC_TI == "emu/ti_set"
TOPIC_SP == "emu/t_sp"
TOPIC_PV == "emu/t_act"
RecognizedTopics == {TOPIC_KP, TOPIC_TI, TOPIC_SP, TOPIC_PV}
Topics == RecognizedTopics \cup {"emu/other"}

\* payloads delivered in the runs of the whole system
Payloads ==
  { <<51, 48>>,                               \* "30"
    <<48>>,                                   \* "0"
    <<45, 49>>,                               \* "-1"
    <<51, 46, 52, 101, 51, 56>>,              \* "3.4e38"
    <<>>,                                     \* empty
    <<120, 121, 122>>,                        \* "xyz": 3 bytes, not text
    <<0, 0, 0, 0, 0, 0, 40, 64>>,             \* double 12.0
    <<0, 0, 0, 0, 0, 0, 248, 127>>,           \* double NaN
    <<0, 0, 128, 127>> }                      \* float +Infinity

\* payloads of the decoder runs: every byte string of up to MaxTextLen bytes
\* over "1", "-", "e", " " and "x", and longer text, raw doubles and raw floats
MaxTextLen == 2
MaxWireMsgs == 1
WireBytes == {49, 45, 101, 32, 120}
RECURSIVE BytesUpTo(_)
BytesUpTo(n) ==
  IF n = 0 THEN {<<>>}
  ELSE BytesUpTo(n - 1) \cup
       {Append(s, b) : s \in {t \in BytesUpTo(n - 1) : Len(t) = n - 1}, b \in WireBytes}
ShortPayloads == BytesUpTo(MaxTextLen)
LongPayloads ==
  { <<50, 51, 46, 53>>,                       \* "23.5"
    <<48>>,                                   \* "0"
    <<46>>,                                   \* "."
    <<43, 45>>,                               \* "+-"
    <<32, 50, 46, 53, 32>>,                   \* " 2.5 "
    <<49, 46, 53, 101, 45, 50>>,              \* "1.5e-2"
    <<51, 101, 51, 56>>,                      \* "3e38"
    <<49, 101, 51, 57>>,                      \* "1e39": infinite as a float
    <<49, 101, 45, 54, 48>>,                  \* "1e-60": zero as a float
    <<120, 121, 122>>,                        \* "xyz": 3 bytes, not text
    <<49, 46, 53, 120>>,                      \* "1.5x": 4 bytes, not text
    <<0, 0, 0, 0, 0, 0, 40, 64>>,             \* double 12.0
    <<0, 0, 0, 0, 0, 0, 0, 192>>,             \* double -2.0
    <<0, 0, 0, 0, 0, 0, 0, 0>>,               \* double 0.0
    <<0, 0, 0, 0, 0, 0, 248, 127>>,           \* double NaN
    <<0, 0, 0, 0, 0, 0, 240, 127>>,           \* double +Infinity
    <<0, 0, 0, 0, 0, 0, 240, 255>>,           \* double -Infinity
    <<156, 117, 0, 136, 60, 228, 55, 126>>,   \* double 1e300
    <<0, 0, 64, 65>>,                         \* float 12.0
    <<0, 0, 128, 191>>,                       \* float -1.0
    <<0, 0, 192, 127>>,                       \* float NaN
    <<0, 0, 128, 127>>,                       \* float +Infinity
    <<0, 0, 64, 65, 7>>,                      \* float 12.0 and a fifth byte
    <<0, 0, 0>> }                             \* 3 zero bytes
\* "1", 63 blanks and "x": 65 bytes, the only byte that is no text byte
\* lies beyond the 64 the ASCII test looks at
LongText == <<49>> \o [i \in 1..63 |-> 32] \o <<120>>
WirePayloads == ShortPayloads \cup LongPayloads \cup {LongText}

\* Decode of every payload, computed once
AllPayloads == Payloads \cup WirePayloads
DecodeTable == [p \in AllPayloads |-> Decode(p)] @@ <<>>
Decoded(payload) == DecodeTable[payload]

\* mqttCallback gets past both early returns
Decodes(payload) == ~Decoded(payload).short /\ isfinite(Decoded(payload).value)

\* ------------------------------------------------------------------------
\* state
\* ------------------------------------------------------------------------

VARIABLES
  Kp, Ti,                 \* tuning parameters
  Kpos, Kneg,             \* b0, b1
  u_logic, pos_deg,       \* logical output, servo position
  temp_setpoint, temp_actual,
  error_k_1, sampleIndex, initial_state_reset,
  wifi, mqttConnected,    \* WiFi.status() == WL_CONNECTED, mqtt.connected()
  ctl_pc,                 \* where control_task is blocked
  mq_pc,                  \* where mqtt_task stands
  T_factor,               \* the local of recalculateCoefficients
  msgs,                   \* messages delivered so far
  coefGen,                \* the recomputation that last wrote <<Kpos, Kneg>>
  held,                   \* controller memory when the last executed period ended
  retained,               \* the pair the broker retains: <<emu/servo_pos, emu/u_out>>
  ev                      \* the last step a task took

tuning == <<Kp, Ti, Kpos, Kneg>>
signals == <<temp_setpoint, temp_actual>>
memory == <<u_logic, error_k_1, sampleIndex, initial_state_reset>>
controlState == <<Kp, Ti, Kpos, Kneg, temp_setpoint, temp_actual,
                  u_logic, error_k_1, sampleIndex, initial_state_reset, pos_deg>>
vars == <<Kp, Ti, Kpos, Kneg, u_logic, pos_deg, temp_setpoint, temp_actual,
          error_k_1, sampleIndex, initial_state_reset, wifi, mqttConnected,
          ctl_pc, mq_pc, T_factor, msgs, coefGen, held, retained, ev>>

Frozen == <<u_logic, error_k_1, sampleIndex, pos_deg>>

\* the state setup() leaves: the globals' initialisers, the coefficients of
\* the first recalculateCoefficients() and the servo at scaleToDegrees(25)
Init ==
  /\ Kp = FInt(5)
  /\ Ti = FInt(250)
  /\ Kpos = KposOf(FInt(5), TFactor(FInt(250)))
  /\ Kneg = KnegOf(FInt(5), TFactor(FInt(250)))
  /\ u_logic = FInt(25)
  /\ pos_deg = setServoDegrees(scaleToDegrees(FInt(25)))
  /\ temp_setpoint = FInt(25)
  /\ temp_actual = FInt(25)
  /\ error_k_1 = FInt(0)
  /\ sampleIndex = 0
  /\ initial_state_reset = FALSE
  /\ wifi \in BOOLEAN
  /\ mqttConnected = FALSE
  /\ ctl_pc = "delay"
  /\ mq_pc = "loop"
  /\ T_factor = Zero
  /\ msgs = 0
  /\ coefGen = <<0, 0>>
  /\ held = <<FInt(25), FInt(0), 0, setServoDegrees(scaleToDegrees(FInt(25)))>>
  /\ retained = <<>>
  /\ ev = [op |-> "setup"]

\* ------------------------------------------------------------------------
\* control_task
\* ------------------------------------------------------------------------

\* a link test that looks at WiFi alone: what the freeze property must tell
\* apart from the test of line 623
LinkWifiOnly == wifi

\* the condition of control_task's if
LinkEstablished == wifi /\ mqttConnected

\* two reset conditions the warm-start properties must tell apart from the
\* one of line 626: one that also holds while the flag is clear, one that
\* holds a period late
ResetDueOrPending == sampleIndex = 5 \/ ~initial_state_reset
ResetDueLate == sampleIndex = 6 /\ ~initial_state_reset
\* (and one that holds a period early: what the agreement of the flag and
\* the counter must tell apart)
ResetDueEarly == sampleIndex = 4 /\ ~initial_state_reset

\* a reset block without line 637: what the signal property must tell apart
ResetKeepsProcessValue(sp, pv) == pv

\* a reset block that clears the process variable: what the writer property
\* of control_task must tell apart
ResetClearsProcessValue(sp, pv) == FInt(0)

\* line 637 of the reset block: temp_actual = temp_setpoint
ResetProcessValue(sp, pv) == sp

\* the reset block applies
ResetDue == sampleIndex = 5 /\ ~initial_state_reset

\* the steps of applyControl: the two saturation tests, the recursive law
\* and the state update; applyControl yields <<u_logic', error_k_1', pos_deg'>>
\* (SaturateNone leaves the lower test out: what the step property must tell
\* apart)
SaturateNone(u_new) == u_new
SaturateLow(u_new) == IF FLt(u_new, FInt(0)) THEN FInt(0) ELSE u_new
SaturateHigh(u_new) == IF FGt(u_new, FInt(100)) THEN FInt(100) ELSE u_new
RecursiveLaw(u, e_k, e1, b0, b1) == FAdd(FAdd(u, FMul(b0, e_k)), FMul(b1, e1))
UpdateStates(u_new, e_k) == <<u_new, e_k, setServoDegrees(scaleToDegrees(u_new))>>
applyControl(u, e1, sp, pv, b0, b1) ==
  UpdateStates(SaturateHigh(SaturateLow(RecursiveLaw(u, FSub(sp, pv), e1, b0, b1))),
               FSub(sp, pv))

\* 10^k
Pow10(k) == 10^k

\* String(x, d): x written with d decimals
Decimals(x, d) ==
  IF x.c # "fin" \/ x.e >= 0 - d THEN x
  ELSE IF 0 - d - x.e > 6 THEN Zero
  ELSE FNorm(RoundDiv(x.m, Pow10(0 - d - x.e)), 0 - d)

\* a publishState that does not test the session: what the publication
\* property must tell apart
publishStateUntested(connected, pos, u, old) == <<Decimals(pos, 1), Decimals(u, 3)>>

\* the pair that publishState has last handed to mqtt.publish, with the
\* retained flag, after it has run with the session up or down: pos_deg
\* with 1 decimal and u_logic with 3
publishState(connected, pos, u, old) ==
  IF connected THEN <<Decimals(pos, 1), Decimals(u, 3)>> ELSE old

\* what becomes of the two calls of mqtt.publish, whose results lines 403
\* and 407 discard: sent, failed, or not made with the session down
PublishOutcomes(connected) == IF connected THEN {"sent", "failed"} ELSE {"none"}

\* vTaskDelayUntil returns.  With the link up the reset block runs when it
\* is due and the task goes on to applyControl; with the link down nothing
\* runs and the task waits for the next period.
ControlWake ==
  /\ ctl_pc = "delay"
  /\ sampleIndex < MaxSamples
  /\ IF LinkEstablished
       THEN LET rst == ResetDue
            IN  /\ u_logic' = IF rst THEN FInt(50) ELSE u_logic
                /\ error_k_1' = IF rst THEN FInt(0) ELSE error_k_1
                /\ initial_state_reset' = (initial_state_reset \/ rst)
                /\ temp_actual' = IF rst
                                    THEN ResetProcessValue(temp_setpoint,
                                                           temp_actual)
                                    ELSE temp_actual
                /\ ctl_pc' = "apply"
                /\ ev' = [op |-> "period", up |-> wifi /\ mqttConnected,
                          ran |-> TRUE, reset |-> rst, n |-> 0]
       ELSE /\ UNCHANGED <<u_logic, error_k_1, initial_state_reset,
                           temp_actual, ctl_pc>>
            /\ ev' = [op |-> "period", up |-> wifi /\ mqttConnected,
                      ran |-> FALSE, reset |-> FALSE,
                      n |-> IF ev.op = "period" /\ ~ev.ran
                              THEN Min(ev.n + 1, MaxSkips) ELSE 1]
  /\ UNCHANGED <<Kp, Ti, Kpos, Kneg, pos_deg, temp_setpoint, sampleIndex, wifi,
                 mqttConnected, mq_pc, T_factor, msgs, coefGen, held,
                 retained>>

\* applyControl() and publishState(), in which the task next blocks.  control_task has
\* the higher priority: mqtt_task does not run between the reset block and
\* applyControl, only while control_task is blocked.
ControlApply ==
  /\ ctl_pc = "apply"
  /\ \E r \in {applyControl(u_logic, error_k_1, temp_setpoint, temp_actual,
                            Kpos, Kneg)} :
         /\ u_logic' = r[1]
         /\ error_k_1' = r[2]
         /\ pos_deg' = r[3]
         /\ retained' = publishState(mqttConnected, r[3], r[1], retained)
  /\ ctl_pc' = "publish"
  /\ \E out \in PublishOutcomes(mqttConnected) :
       ev' = [op |-> "apply", reset |-> ev.reset, gen |-> coefGen,
              out |-> out]
  /\ UNCHANGED <<Kp, Ti, Kpos, Kneg, temp_setpoint, temp_actual, sampleIndex,
                 initial_state_reset, wifi, mqttConnected, mq_pc, T_factor,
                 msgs, coefGen, held>>

\* a counter two bits wide: what the counting property must tell apart
PostIncrementNarrow(k) == (k + 1) % 4

\* a counter that stays where it is: what the liveness of the controller
\* must tell apart
PostIncrementStuck(k) == k

\* sampleIndex++ on an unsigned long of 32 bits, which wraps after 2^32
\* periods of one second; the runs stop at MaxSamples, far below
PostIncrement(k) == k + 1

\* a control_task that calls applyControl and publishState again when the
\* publish has failed: what the property of the publish outcome must tell
\* apart
ControlLogRetries ==
  /\ ctl_pc = "publish"
  /\ ctl_pc' = IF ev.out = "failed" THEN "apply" ELSE "led"
  /\ sampleIndex' = IF ev.out = "failed" THEN sampleIndex
                                         ELSE PostIncrement(sampleIndex)
  /\ held' = <<u_logic, error_k_1, sampleIndex', pos_deg>>
  /\ ev' = [op |-> "log", reset |-> FALSE]
  /\ UNCHANGED <<Kp, Ti, Kpos, Kneg, u_logic, pos_deg, temp_setpoint,
                 temp_actual, error_k_1, initial_state_reset, wifi,
                 mqttConnected, mq_pc, T_factor, msgs, coefGen,
                 retained>>

\* publishState returns (the publish may or may not have gone out), then
\* sampleIndex++ and the CSV log line; the task blocks in the LED pulse
ControlLog ==
  /\ ctl_pc = "publish"
  /\ sampleIndex' = PostIncrement(sampleIndex)
  /\ ctl_pc' = "led"
  /\ held' = <<u_logic, error_k_1, PostIncrement(sampleIndex), pos_deg>>
  /\ ev' = [op |-> "log"]
  /\ UNCHANGED <<Kp, Ti, Kpos, Kneg, u_logic, pos_deg, temp_setpoint,
                 temp_actual, error_k_1, initial_state_reset, wifi,
                 mqttConnected, mq_pc, T_factor, msgs, coefGen,
                 retained>>

\* an LED pulse whose vTaskDelay never returns: what the progress property
\* must tell apart
ControlLedNeverEnds == ctl_pc = "led" /\ ctl_pc' = "led" /\ UNCHANGED vars

\* the LED pulse ends; back to vTaskDelayUntil
ControlLed ==
  /\ ctl_pc = "led"
  /\ ctl_pc' = "delay"
  /\ ev' = [op |-> "led"]
  /\ UNCHANGED <<Kp, Ti, Kpos, Kneg, u_logic, pos_deg, temp_setpoint,
                 temp_actual, error_k_1, sampleIndex, initial_state_reset,
                 wifi, mqttConnected, mq_pc, T_factor, msgs, coefGen, held,
                 retained>>

control_task == ControlWake \/ ControlApply \/ ControlLog \/ ControlLed

\* ------------------------------------------------------------------------
\* mqtt_task
\* ------------------------------------------------------------------------

\* strcmp(topic, name) == 0, and a comparison that also takes every topic
\* outside the four subscribed ones (what the topic property must tell apart)
TopicIsOrUnknown(topic, name) == topic = name \/ topic \notin RecognizedTopics
TopicIs(topic, name) == topic = name

\* the test mqttCallback applies to a Kp or Ti value, and one that lets
\* zero through (what the rejection property must tell apart)
TuningNonNegative(value) == FLe(FInt(0), value)
\* (and one that lets every finite value through: what the invariant of
\* the tuning must tell apart)
TuningUnchecked(value) == isfinite(value)
TuningAccepted(value) == FGt(value, FInt(0))

\* the value a setpoint or process-variable message stores (lines 575 and
\* 579 store it as decoded), and one floored at zero: what the signal
\* property must tell apart
SignalValueFloored(value) == IF FLt(value, FInt(0)) THEN FInt(0) ELSE value
SignalValue(value) == value

\* mqttCallback from the isfinite test on, d the decoded payload
Dispatch(topic, d) ==
  LET value == d.value
      ok == ~d.short /\ isfinite(value)
      toKp == ok /\ TopicIs(topic, TOPIC_KP)
      toTi == ok /\ ~toKp /\ TopicIs(topic, TOPIC_TI)
      toSp == ok /\ ~toKp /\ ~toTi /\ TopicIs(topic, TOPIC_SP)
      toPv == ok /\ ~toKp /\ ~toTi /\ ~toSp /\ TopicIs(topic, TOPIC_PV)
      isKp == toKp /\ TuningAccepted(value)
      isTi == toTi /\ TuningAccepted(value)
      kp1 == IF isKp THEN value ELSE Kp
      ti1 == IF isTi THEN value ELSE Ti
      recalc == (isKp \/ isTi) /\ CoefficientsValid(kp1, ti1)
  IN  /\ Kp' = kp1
      /\ Ti' = ti1
      /\ T_factor' = IF recalc THEN TFactor(ti1) ELSE T_factor
      /\ mq_pc' = IF recalc THEN "kpos" ELSE "loop"
      /\ temp_setpoint' = IF toSp THEN SignalValue(value) ELSE temp_setpoint
      /\ temp_actual' = IF toPv THEN SignalValue(value) ELSE temp_actual
      /\ UNCHANGED <<Kpos, Kneg, u_logic, pos_deg, error_k_1, sampleIndex,
                     initial_state_reset, coefGen>>

\* mqtt.loop() hands one message to mqttCallback.  The callback runs up to
\* its return or, for an accepted Kp or Ti, up to the first coefficient
\* write of recalculateCoefficients (control_task reads neither Kp nor Ti,
\* so it can tell no earlier point of the callback from this one).
mqttCallback(topic, payload) == Dispatch(topic, Decoded(payload))

DeliverFrom(payloads, budget) ==
  /\ ctl_pc # "apply"
  /\ mq_pc = "loop"
  /\ wifi /\ mqttConnected
  /\ msgs < budget
  /\ \E topic \in Topics, payload \in payloads :
       /\ mqttCallback(topic, payload)
       /\ ev' = [op |-> "msg", topic |-> topic, payload |-> payload]
  /\ msgs' = msgs + 1
  /\ UNCHANGED <<wifi, mqttConnected, ctl_pc, held, retained>>

\* recalculateCoefficients, line 360: Kpos = Kp * (1 + T_factor)
RecalcKpos ==
  /\ ctl_pc # "apply"
  /\ mq_pc = "kpos"
  /\ Kpos' = KposOf(Kp, T_factor)
  /\ coefGen' = <<coefGen[1] + 1, coefGen[2]>>
  /\ mq_pc' = "kneg"
  /\ ev' = [op |-> "kpos"]
  /\ UNCHANGED <<Kp, Ti, Kneg, u_logic, pos_deg, temp_setpoint, temp_actual,
                 error_k_1, sampleIndex, initial_state_reset, wifi,
                 mqttConnected, ctl_pc, T_factor, msgs, held,
                 retained>>

\* recalculateCoefficients, line 361: Kneg = -Kp * (1 - T_factor); the
\* callback then returns
RecalcKneg ==
  /\ ctl_pc # "apply"
  /\ mq_pc = "kneg"
  /\ Kneg' = KnegOf(Kp, T_factor)
  /\ coefGen' = <<coefGen[1], coefGen[2] + 1>>
  /\ mq_pc' = "loop"
  /\ ev' = [op |-> "kneg"]
  /\ UNCHANGED <<Kp, Ti, Kpos, u_logic, pos_deg, temp_setpoint, temp_actual,
                 error_k_1, sampleIndex, initial_state_reset, wifi,
                 mqttConnected, ctl_pc, T_factor, msgs, held,
                 retained>>

\* a connectMQTT that puts the output back to its value of the start when
\* the session is established: what the writer property of mqtt_task must
\* tell apart
connectMQTTResets ==
  /\ ctl_pc # "apply"
  /\ mq_pc = "loop"
  /\ wifi /\ ~mqttConnected
  /\ mqttConnected' = TRUE
  /\ u_logic' = FInt(25)
  /\ retained' = publishState(TRUE, pos_deg, FInt(25), retained)
  /\ ev' = [op |-> "connect", ok |-> TRUE]
  /\ UNCHANGED <<Kp, Ti, Kpos, Kneg, pos_deg, temp_setpoint, temp_actual,
                 error_k_1, sampleIndex, initial_state_reset, wifi, ctl_pc,
                 mq_pc, T_factor, msgs, coefGen, held>>

\* mqtt_task finds the session down and calls connectMQTT, which may fail
\* and on success publishes the current state
connectMQTT ==
  /\ ctl_pc # "apply"
  /\ mq_pc = "loop"
  /\ wifi /\ ~mqttConnected
  /\ \E ok \in BOOLEAN :
       /\ mqttConnected' = ok
       /\ retained' = publishState(ok, pos_deg, u_logic, retained)
       /\ ev' = [op |-> "connect", ok |-> ok]
  /\ UNCHANGED <<Kp, Ti, Kpos, Kneg, u_logic, pos_deg, temp_setpoint,
                 temp_actual, error_k_1, sampleIndex, initial_state_reset,
                 wifi, ctl_pc, mq_pc, T_factor, msgs, coefGen, held>>

\* mqtt_task finds WiFi down and WiFi.reconnect() brings it back
WifiReconnect ==
  /\ ctl_pc # "apply"
  /\ mq_pc = "loop"
  /\ ~wifi
  /\ wifi' = TRUE
  /\ ev' = [op |-> "wifi", up |-> TRUE]
  /\ UNCHANGED <<Kp, Ti, Kpos, Kneg, u_logic, pos_deg, temp_setpoint,
                 temp_actual, error_k_1, sampleIndex, initial_state_reset,
                 mqttConnected, ctl_pc, mq_pc, T_factor, msgs, coefGen, held,
                 retained>>

Deliver == DeliverFrom(Payloads, MaxMsgs)

mqtt_task == Deliver \/ RecalcKpos \/ RecalcKneg \/ connectMQTT \/ WifiReconnect

\* ------------------------------------------------------------------------
\* the network
\* ------------------------------------------------------------------------

\* the access point or the broker goes away, at any moment
WifiLost ==
  /\ wifi
  /\ wifi' = FALSE
  /\ UNCHANGED <<Kp, Ti, Kpos, Kneg, u_logic, pos_deg, temp_setpoint,
                 temp_actual, error_k_1, sampleIndex, initial_state_reset,
                 mqttConnected, ctl_pc, mq_pc, T_factor, msgs, coefGen, held,
                 ev,
                 retained>>

BrokerLost ==
  /\ mqttConnected
  /\ mqttConnected' = FALSE
  /\ UNCHANGED <<Kp, Ti, Kpos, Kneg, u_logic, pos_deg, temp_setpoint,
                 temp_actual, error_k_1, sampleIndex, initial_state_reset,
                 wifi, ctl_pc, mq_pc, T_factor, msgs, coefGen, held, ev,
                 retained>>

Next == control_task \/ mqtt_task \/ WifiLost \/ BrokerLost

Spec == Init /\ [][Next]_vars

\* the runs in which progress is checked: a message of every kind of
\* rejection (tuning that is not positive, a payload that does not decode,
\* a topic that is not subscribed) and one that is accepted
LivePayloads == { <<51, 48>>, <<45, 49>>, <<120, 121, 122>> }

LiveDeliver == DeliverFrom(LivePayloads, MaxMsgs)

LiveNext ==
  \/ control_task
  \/ LiveDeliver \/ RecalcKpos \/ RecalcKneg \/ connectMQTT \/ WifiReconnect
  \/ WifiLost \/ BrokerLost

\* the scheduling of the two tasks: the delays of control_task expire and
\* the task, of the higher priority, runs to its next blocking call;
\* control_task blocks in every period, and mqtt_task, the only other task
\* of the program, runs then, so a handler that is preempted again and again
\* still returns
FairSpec ==
  /\ Init /\ [][LiveNext]_vars
  /\ WF_vars(control_task)
  /\ SF_vars(RecalcKpos \/ RecalcKneg)

\* the runs in which messages arrive before the first control period is due
WireDeliver == DeliverFrom(WirePayloads, MaxWireMsgs)

WireNext == WireDeliver \/ RecalcKpos \/ RecalcKneg \/ connectMQTT \/ WifiReconnect

WireSpec == Init /\ [][WireNext]_vars

\* ------------------------------------------------------------------------
\* scaleToDegrees on its own
\* ------------------------------------------------------------------------

\* arguments of scaleToDegrees: below, inside and above 0..100, the two
\* ends, fractions, the infinities and NaN
ScaleInputs ==
  {FInt(n) : n \in {0 - 20, 0 - 1, 0, 1, 25, 50, 75, 99, 100, 101, 250}}
    \cup {FDec(5, 0 - 1), FDec(7505, 0 - 2), FDec(9995, 0 - 2), FDec(0 - 1, 0 - 3),
          FDec(34, 37), PosInf, NegInf, NaN}

\* one call of scaleToDegrees; ev keeps its argument and result and those
\* of the call before
ScaleCall ==
  /\ \E u \in ScaleInputs :
       ev' = [op |-> "scale", u |-> u, deg |-> scaleToDegrees(u),
              prev_u |-> IF ev.op = "scale" THEN ev.u ELSE u,
              prev_deg |-> IF ev.op = "scale" THEN ev.deg ELSE scaleToDegrees(u)]
  /\ UNCHANGED <<Kp, Ti, Kpos, Kneg, u_logic, pos_deg, temp_setpoint,
                 temp_actual, error_k_1, sampleIndex, initial_state_reset,
                 wifi, mqttConnected, ctl_pc, mq_pc, T_factor, msgs, coefGen,
                 held,
                 retained>>

ScaleSpec == Init /\ [][ScaleCall]_vars

\* ------------------------------------------------------------------------
\* setServoDegrees on given angles
\* ------------------------------------------------------------------------

\* arguments of setServoDegrees: the results of scaleToDegrees, and angles
\* below, inside and above 0..180 that exercise its two tests and roundf
ServoInputs ==
  {scaleToDegrees(u) : u \in ScaleInputs}
    \cup {FInt(0 - 5), FInt(200), FDec(5, 0 - 1), FDec(4549, 0 - 2),
          FDec(1355, 0 - 1), FDec(17951, 0 - 2), PosInf, NegInf}

\* one call of setServoDegrees followed by publishState with the session
\* up; ev keeps the argument, the value passed to servo.write and the
\* argument of the call before
ServoCall ==
  /\ \E deg \in ServoInputs :
       /\ pos_deg' = setServoDegrees(deg)
       /\ \E cmd \in servoWrite(setServoDegrees(deg)) :
            ev' = [op |-> "servo", deg |-> deg, cmd |-> cmd,
                   prev_deg |-> IF ev.op = "servo" THEN ev.deg ELSE deg]
       /\ retained' = publishState(TRUE, setServoDegrees(deg), u_logic, retained)
  /\ UNCHANGED <<Kp, Ti, Kpos, Kneg, u_logic, temp_setpoint, temp_actual,
                 error_k_1, sampleIndex, initial_state_reset, wifi,
                 mqttConnected, ctl_pc, mq_pc, T_factor, msgs, coefGen, held>>

ServoSpec == Init /\ [][ServoCall]_vars

\* ------------------------------------------------------------------------
\* recalculateCoefficients and applyControl on given values
\* ------------------------------------------------------------------------

\* values of u_logic, error_k_1, temp_setpoint, temp_actual, Kp and Ti
LawOutputs == {FInt(50), FInt(25), FInt(0), FInt(100)}
LawErrors == {FInt(0), FInt(5), FInt(0 - 25)}
LawSetpoints == {FInt(30), FInt(25)}
LawProcessValues == {FInt(25), FInt(30), FInt(0)}
LawGains == {FInt(5), FInt(30)}
LawTimes == {FInt(250), FInt(1)}

\* recalculateCoefficients has computed T_factor from the given Kp and Ti
\* and is about to write the coefficients; control_task waits for its
\* period with the given memory and signals and the link up
LawInit ==
  /\ Kp \in LawGains
  /\ Ti \in LawTimes
  /\ T_factor = TFactor(Ti)
  /\ Kpos = Zero
  /\ Kneg = Zero
  /\ u_logic \in LawOutputs
  /\ error_k_1 \in LawErrors
  /\ temp_setpoint \in LawSetpoints
  /\ temp_actual \in LawProcessValues
  /\ pos_deg = setServoDegrees(scaleToDegrees(u_logic))
  /\ sampleIndex = 0
  /\ initial_state_reset = FALSE
  /\ wifi = TRUE
  /\ mqttConnected = TRUE
  /\ ctl_pc = "delay"
  /\ mq_pc = "kpos"
  /\ msgs = 0
  /\ coefGen = <<0, 0>>
  /\ held = <<u_logic, error_k_1, 0, pos_deg>>
  /\ retained = <<>>
  /\ ev = [op |-> "setup"]

LawNext == RecalcKpos \/ RecalcKneg \/ ControlWake \/ ControlApply

LawSpec == LawInit /\ [][LawNext]_vars

\* ------------------------------------------------------------------------
\* properties
\* ------------------------------------------------------------------------

\* a step in which mqtt.loop() hands a message to mqttCallback; ev' then
\* holds its topic and payload
MessageStep == msgs' = msgs + 1

\* a step in which control_task wakes up with the link established
ExecutedWake == ctl_pc = "delay" /\ ctl_pc' = "apply"

\* C1: in every reachable state the logical output lies in [0, 100]
OutputInRange == FLe(FInt(0), u_logic) /\ FLe(u_logic, FInt(100))

\* C2: after a wakeup that found the link down, the task is waiting for the
\* next period and the output, the previous error, the sample index and the
\* servo position are those the last executed period ended with
FreezeOnDisconnect ==
  (ev.op = "period" /\ ~ev.up) => (ctl_pc = "delay" /\ Frozen = held)

\* the link was down at two or more consecutive wakeups, after a period that
\* ran a step while a message had changed the setpoint
FreezeWitness ==
  /\ ev.op = "period" /\ ~ev.up /\ ev.n >= 2
  /\ sampleIndex >= 1
  /\ u_logic # FInt(25)

\* C3: initial_state_reset is never cleared once set, and the reset block
\* runs only in a period that starts with the flag clear
WarmStartOnce ==
  [][ /\ initial_state_reset => initial_state_reset'
      /\ (ExecutedWake /\ ev'.reset) => ~initial_state_reset ]_vars

\* the reset has run and two more periods have executed since sampleIndex
\* was 5
WarmStartOnceWitness == initial_state_reset /\ sampleIndex = 7

\* C4: between the wakeup of an executed period and its applyControl, the
\* reset block has run exactly when sampleIndex is 5, and then the output
\* is 50, the previous error 0, the process variable equal to the setpoint
\* and the flag set
WarmStartAtFive ==
  ctl_pc = "apply" =>
    /\ ev.op = "period"
    /\ ev.reset <=> (sampleIndex = 5)
    /\ ev.reset =>
         /\ u_logic = FInt(50)
         /\ error_k_1 = FInt(0)
         /\ temp_actual = temp_setpoint
         /\ initial_state_reset

\* the reset block has just run, on an output other than 50
WarmStartAtFiveWitness ==
  ctl_pc = "apply" /\ ev.reset /\ sampleIndex = 5 /\ held[1] # FInt(50)

\* C5: every applyControl reads Kpos and Kneg written by the same run of
\* recalculateCoefficients
CoefficientsFromOneRecomputation ==
  ev.op = "apply" => ev.gen[1] = ev.gen[2]

\* C6: a Kp or Ti message whose decoded value is finite and not above zero
\* leaves Kp, Ti, Kpos and Kneg as they were and starts no recomputation
RejectionInvariance ==
  [][ (/\ MessageStep
       /\ ev'.topic \in {TOPIC_KP, TOPIC_TI}
       /\ Decodes(ev'.payload)
       /\ FLe(Decoded(ev'.payload).value, FInt(0)))
      => (UNCHANGED tuning /\ mq_pc' = "loop") ]_vars

\* a negative value arrived on the Ti topic
RejectionWitness ==
  /\ ev.op = "msg" /\ ev.topic = TOPIC_TI
  /\ Decodes(ev.payload)
  /\ FLt(Decoded(ev.payload).value, FInt(0))

\* the payload is too short to decode (empty, or under 4 bytes and not
\* numeric text) or decodes to NaN or an infinity
Undecodable(payload) ==
  \/ Len(payload) = 0
  \/ Len(payload) < 4 /\ ~isAsciiNumber(payload)
  \/ ~isfinite(Decoded(payload).value)

\* C7: a message on one of the four topics whose payload is undecodable
\* changes no field of the control state
UndecodableNoChange ==
  [][ (/\ MessageStep
       /\ ev'.topic \in RecognizedTopics
       /\ Undecodable(ev'.payload))
      => UNCHANGED controlState ]_vars

\* C8: a message whose payload is classified as text and is not a
\* floating-point literal changes no field of the control state
InvalidTextNoChange ==
  [][ (/\ MessageStep
       /\ isAsciiNumber(ev'.payload)
       /\ ~IsFloatLiteral(trim(ev'.payload)))
      => UNCHANGED controlState ]_vars

\* C9: a message on a topic outside the four subscribed ones changes no
\* field of the control state and starts no recomputation
UnrecognizedTopicIgnored ==
  [][ (MessageStep /\ ev'.topic \notin RecognizedTopics)
      => (UNCHANGED controlState /\ mq_pc' = "loop") ]_vars

\* a positive finite value arrived on a topic outside the four
UnrecognizedTopicWitness ==
  /\ ev.op = "msg" /\ ev.topic \notin RecognizedTopics
  /\ Decodes(ev.payload)
  /\ FGt(Decoded(ev.payload).value, FInt(0))

\* b0 and b1 of the Tustin PI for the given Kp and Ti
TustinB0(kp, ti) == FMul(kp, FAdd(FInt(1), FDiv(Tm, FMul(FInt(2), ti))))
TustinB1(kp, ti) ==
  FMul(FNeg(kp), FSub(FInt(1), FDiv(Tm, FMul(FInt(2), ti))))

\* C10: a finite value on the Kp or Ti topic is stored exactly when it is
\* above zero, the recomputation then starts within the same callback, and
\* whenever mqttCallback has returned Kpos and Kneg are the Tustin
\* coefficients of the current Kp and Ti
TuningAcceptedIffPositive ==
  [][ /\ (MessageStep /\ ev'.topic \in {TOPIC_KP, TOPIC_TI}
             /\ Decodes(ev'.payload))
          => LET v == Decoded(ev'.payload).value
             IN  IF FGt(v, FInt(0))
                   THEN /\ Kp' = IF ev'.topic = TOPIC_KP THEN v ELSE Kp
                        /\ Ti' = IF ev'.topic = TOPIC_TI THEN v ELSE Ti
                        /\ mq_pc' = "kpos"
                   ELSE UNCHANGED <<Kp, Ti>> /\ mq_pc' = "loop"
      /\ mq_pc' = "loop"
          => /\ Kpos' = TustinB0(Kp', Ti')
             /\ Kneg' = TustinB1(Kp', Ti') ]_vars

\* mqttCallback has returned from an accepted Ti message
TuningWitness ==
  ev.op = "kneg" /\ mq_pc = "loop" /\ Ti # FInt(250)

\* C11: a setpoint message with a finite decoded value stores that value in
\* temp_setpoint and a process-variable message stores it in temp_actual,
\* whatever the value; neither changes the other signal, the tuning, the
\* coefficients, the controller memory or the servo position
SignalReplacedAlone ==
  [][ (MessageStep /\ Decodes(ev'.payload))
      => /\ ev'.topic = TOPIC_SP
              => /\ temp_setpoint' = Decoded(ev'.payload).value
                 /\ UNCHANGED <<temp_actual, tuning, memory, pos_deg>>
                 /\ mq_pc' = "loop"
         /\ ev'.topic = TOPIC_PV
              => /\ temp_actual' = Decoded(ev'.payload).value
                 /\ UNCHANGED <<temp_setpoint, tuning, memory, pos_deg>>
                 /\ mq_pc' = "loop" ]_vars

\* a negative value arrived on the process-variable topic and is stored
SignalWitness ==
  /\ ev.op = "msg" /\ ev.topic = TOPIC_PV
  /\ Decodes(ev.payload)
  /\ FLt(Decoded(ev.payload).value, FInt(0))
  /\ temp_actual = Decoded(ev.payload).value
  /\ temp_setpoint = FInt(25)

\* a step in which control_task runs applyControl
ApplyStep == ctl_pc = "apply" /\ ctl_pc' = "publish"

\* x limited to [0, 100]
Clamp(x) ==
  IF FLt(x, FInt(0)) THEN FInt(0) ELSE IF FGt(x, FInt(100)) THEN FInt(100) ELSE x

\* C12: every applyControl sets error_k_1 to setpoint - process variable
\* and u_logic to the clamp of u_logic + Kpos * error + Kneg * error_k_1,
\* where the u_logic and error_k_1 it reads are those the previous step
\* stored (or those of the reset block)
ControlStepLaw ==
  [][ ApplyStep
      => /\ error_k_1' = FSub(temp_setpoint, temp_actual)
         /\ u_logic' =
              Clamp(FAdd(FAdd(u_logic,
                              FMul(Kpos, FSub(temp_setpoint, temp_actual))),
                         FMul(Kneg, error_k_1)))
         /\ ~ev.reset => (u_logic = held[1] /\ error_k_1 = held[2]) ]_vars

\* a second step went on from an output the step before had clamped to 0
ControlStepWitness ==
  /\ ev.op = "apply" /\ sampleIndex >= 1
  /\ held[1] = FInt(0)
  /\ u_logic = FInt(0)
  /\ error_k_1 = FInt(0 - 25)

\* C13: scaleToDegrees returns a value in [0, 180] for every argument, the
\* linear image of the argument clamped to [0, 100]: 0 for an argument of 0
\* or below, 180 for one of 100 or above, and no smaller than its value at
\* a smaller argument
ScaleTotalMonotone ==
  ev.op = "scale" =>
    /\ FLe(FInt(0), ev.deg) /\ FLe(ev.deg, FInt(180))
    /\ ev.deg = FMul(FDiv(Clamp(ev.u), FInt(100)), FInt(180))
    /\ FLe(ev.u, FInt(0)) => ev.deg = FInt(0)
    /\ FLe(FInt(100), ev.u) => ev.deg = FInt(180)
    /\ FLe(ev.prev_u, ev.u) => FLe(ev.prev_deg, ev.deg)

\* the same for every argument that is a number
ScaleTotalMonotoneOnNumbers ==
  (ev.op = "scale" /\ ~isnan(ev.u) /\ ~isnan(ev.prev_u)) => ScaleTotalMonotone

\* C14: with Kp = 5, Ti = 250 and Tm = 1 recalculateCoefficients leaves
\* Kpos = 5.01 and Kneg = -4.99, and applyControl on u_logic = 50,
\* error_k_1 = 0, setpoint 30 and process variable 25 then leaves
\* error_k_1 = 5, u_logic = 75.05 and pos_deg = 135.09
ScenarioStep ==
  [][ (/\ ApplyStep
       /\ Kp = FInt(5) /\ Ti = FInt(250) /\ Tm = FInt(1)
       /\ coefGen = <<1, 1>>
       /\ u_logic = FInt(50) /\ error_k_1 = FInt(0)
       /\ temp_setpoint = FInt(30) /\ temp_actual = FInt(25))
      => /\ Kpos = FDec(501, 0 - 2)
         /\ Kneg = FDec(0 - 499, 0 - 2)
         /\ error_k_1' = FInt(5)
         /\ u_logic' = FDec(7505, 0 - 2)
         /\ pos_deg' = FDec(13509, 0 - 2) ]_vars

\* the step of the scenario has run
ScenarioWitness ==
  /\ ev.op = "apply" /\ coefGen = <<1, 1>>
  /\ Kp = FInt(5) /\ Ti = FInt(250)
  /\ held = <<FInt(50), FInt(0), 0, FInt(90)>>
  /\ temp_setpoint = FInt(30) /\ temp_actual = FInt(25)
  /\ u_logic = FDec(7505, 0 - 2)

\* the bytes 0-9 . + - e E and the blank
TextSet == (48..57) \cup {46, 43, 45, 101, 69, 32}

\* every one of the first min(length, 64) bytes is in the text set
AllTextInFirst64(p) == \A i \in 1..Min(Len(p), 64) : p[i] \in TextSet

\* the decoding order: text, else double from 8 bytes on, else float from
\* 4 bytes on, else rejected with no change
DecodingOrder(p, d) ==
  /\ AllTextInFirst64(p) <=> d.path = "text"
  /\ (~AllTextInFirst64(p) /\ Len(p) >= 8) <=> d.path = "double"
  /\ (~AllTextInFirst64(p) /\ Len(p) < 8 /\ Len(p) >= 4) <=> d.path = "float"
  /\ (~AllTextInFirst64(p) /\ Len(p) < 4) <=> d.path = "none"
  /\ d.path = "text" => d.value = toFloat(trim(p))
  /\ d.path = "double" => d.value = DoubleToFloat(p)
  /\ d.path = "float" => d.value = BytesToFloat(p)
  /\ d.path = "none" => (d.short /\ UNCHANGED controlState)

\* C15: every message is decoded in the decoding order, and a payload that
\* holds a byte outside the text set anywhere is not decoded as text and is
\* rejected when shorter than 4 bytes
DecodingOrderAnyByte ==
  [][ MessageStep
      => /\ DecodingOrder(ev'.payload, Decoded(ev'.payload))
         /\ (\E i \in 1..Len(ev'.payload) : ev'.payload[i] \notin TextSet)
              => /\ Decoded(ev'.payload).path # "text"
                 /\ Len(ev'.payload) < 4 => UNCHANGED controlState ]_vars

\* C15, amended: every message is decoded in the decoding order, and a
\* payload that holds a byte outside the text set among its first 64 bytes
\* is not decoded as text and is rejected when shorter than 4 bytes
DecodingOrderFirst64 ==
  [][ MessageStep
      => /\ DecodingOrder(ev'.payload, Decoded(ev'.payload))
         /\ (\E i \in 1..Min(Len(ev'.payload), 64) : ev'.payload[i] \notin TextSet)
              => /\ Decoded(ev'.payload).path # "text"
                 /\ Len(ev'.payload) < 4 => UNCHANGED controlState ]_vars

\* a 65-byte payload whose last byte is "x" was decoded as text and its
\* value 1 stored as the setpoint
DecodingOrderWitness ==
  /\ ev.op = "msg" /\ ev.topic = TOPIC_SP
  /\ ev.payload = LongText
  /\ Decoded(ev.payload).path = "text"
  /\ temp_setpoint = FInt(1)

\* a step in which connectMQTT establishes the session
ConnectStep == ~mqttConnected /\ mqttConnected'

\* C16: the retained pair changes in no step but the applyControl and
\* publishState of an executed period, and every such step leaves the pair
\* at the position and output the step has just computed
PublishedOncePerPeriodOnly ==
  [][ /\ retained' # retained => ApplyStep
      /\ ApplyStep
           => retained' = <<Decimals(pos_deg', 1), Decimals(u_logic', 3)>> ]_vars

\* C16, amended: publishState runs once in every executed period, after
\* applyControl, and publishes the position and output just computed when
\* it finds the session up and nothing when it finds it down; connectMQTT
\* publishes the current pair each time it establishes the session; the
\* retained pair changes in no other step
PublishedPerPeriodAndOnConnect ==
  [][ /\ retained' # retained => ((ApplyStep /\ mqttConnected) \/ ConnectStep)
      /\ ApplyStep
           => retained' = IF mqttConnected
                            THEN <<Decimals(pos_deg', 1), Decimals(u_logic', 3)>>
                            ELSE retained
      /\ ConnectStep
           => retained' = <<Decimals(pos_deg, 1), Decimals(u_logic, 3)>> ]_vars

\* connectMQTT established the session after at least one period had run
\* and published the current pair, which is not the one of the start
PublishedWitness ==
  /\ ev.op = "connect" /\ ev.ok
  /\ sampleIndex >= 1
  /\ retained = <<Decimals(pos_deg, 1), Decimals(u_logic, 3)>>
  /\ retained # <<FInt(45), FInt(25)>>

\* C17: no state is terminal; a control_task that is waiting for its period
\* can wake whatever mqtt_task is doing, and one that is in a period reaches
\* the next period boundary; a message handler that has started returns to
\* the loop of mqtt_task, whatever messages were rejected and whatever
\* links were lost before
NoErrorIsFatal ==
  /\ [](ENABLED <<LiveNext>>_vars)
  /\ [](ctl_pc = "delay" /\ sampleIndex < MaxSamples => ENABLED ControlWake)
  /\ (ctl_pc # "delay") ~> (ctl_pc = "delay")
  /\ (mq_pc # "loop") ~> (mq_pc = "loop")

\* control_task has reached a period boundary, after periods that were
\* executed, with the link lost and after a message that was rejected: the
\* message left the tuning and the signals as they were at the start, and
\* no payload of the runs carries one of those values
NoErrorIsFatalWitness ==
  /\ ev.op = "period" /\ ~ev.ran
  /\ sampleIndex >= 1
  /\ msgs >= 1
  /\ Kp = FInt(5) /\ Ti = FInt(250)
  /\ temp_setpoint = FInt(25) /\ temp_actual = FInt(25)
  /\ mq_pc = "loop"

\* the step that ends the work of an executed period: the log line
LogStep == ctl_pc = "publish" /\ ctl_pc' = "led"

\* C18: sampleIndex is 0 at the start; the log step of an executed period
\* adds exactly 1 to it, and every other step (a skipped period, a message,
\* the warm-start reset, a link event) leaves it as it is, so that it is
\* never reset and never decreases
SampleIndexCounts ==
  /\ sampleIndex = 0
  /\ [][ IF LogStep THEN sampleIndex' = sampleIndex + 1
                    ELSE sampleIndex' = sampleIndex ]_vars

\* a period was skipped after the warm-start reset and after a message, and
\* the index still counts the six executed periods
SampleIndexWitness ==
  /\ ev.op = "period" /\ ~ev.ran
  /\ initial_state_reset
  /\ msgs >= 1
  /\ sampleIndex = 6

\* C19: from the end of setup on, whenever no message handler is running,
\* Kpos and Kneg are the Tustin coefficients of the stored Kp and Ti, and
\* the two have been recomputed the same number of times
CoefficientsConsistent ==
  mq_pc = "loop"
    => /\ Kpos = TustinB0(Kp, Ti)
       /\ Kneg = TustinB1(Kp, Ti)
       /\ coefGen[1] = coefGen[2]

\* control periods have run since a handler stored a new Kp, recomputed
\* both coefficients and returned
CoefficientsConsistentWitness ==
  /\ mq_pc = "loop"
  /\ Kp = FInt(30)
  /\ coefGen = <<1, 1>>
  /\ sampleIndex >= 2

\* a step in which mqttCallback handles a message on the given topic whose
\* payload the decoder accepts
SignalMessage(topic) ==
  MessageStep /\ ev'.topic = topic /\ Decodes(ev'.payload)

\* C20: temp_actual changes in no step but the handling of a decoded
\* process-variable message and temp_setpoint in none but the handling of
\* a decoded setpoint message, and each such message leaves its field at
\* the value it carries
SignalsFromMessagesOnly ==
  [][ /\ temp_actual' # temp_actual => SignalMessage(TOPIC_PV)
      /\ temp_setpoint' # temp_setpoint => SignalMessage(TOPIC_SP)
      /\ SignalMessage(TOPIC_PV) => temp_actual' = Decoded(ev'.payload).value
      /\ SignalMessage(TOPIC_SP) => temp_setpoint' = Decoded(ev'.payload).value
    ]_vars

\* C20, amended: temp_setpoint changes in no step but the handling of a
\* decoded setpoint message; temp_actual changes in no step but the
\* handling of a decoded process-variable message and the warm-start reset,
\* which copies the setpoint into it; each message leaves its field at the
\* value it carries
SignalsFromMessagesOrReset ==
  [][ /\ temp_actual' # temp_actual
           => SignalMessage(TOPIC_PV) \/ (ExecutedWake /\ ResetDue)
      /\ temp_setpoint' # temp_setpoint => SignalMessage(TOPIC_SP)
      /\ SignalMessage(TOPIC_PV) => temp_actual' = Decoded(ev'.payload).value
      /\ SignalMessage(TOPIC_SP) => temp_setpoint' = Decoded(ev'.payload).value
      /\ (ExecutedWake /\ ResetDue) => temp_actual' = temp_setpoint
    ]_vars

\* the warm-start reset has just run after a setpoint message, and the
\* process variable is the setpoint that the message carried
SignalsWitness ==
  /\ ev.op = "period" /\ ev.reset
  /\ initial_state_reset
  /\ temp_setpoint # FInt(25)
  /\ temp_actual = temp_setpoint

\* a step of control_task: a wakeup (executed or skipped), applyControl and
\* publishState, the log line, the end of the LED pulse
ControlStep == ctl_pc' # ctl_pc \/ (ev' # ev /\ ev'.op = "period")

\* C21: no step of control_task writes the setpoint, the process variable,
\* the tuning parameters or the coefficients
ControlWritesMemoryOnly ==
  [][ ControlStep => UNCHANGED <<signals, tuning, Kpos, Kneg, T_factor>> ]_vars

\* C21, amended: no step of control_task writes the setpoint, the tuning
\* parameters or the coefficients, and the process variable is written by
\* the reset block alone, which copies the setpoint into it
ControlWritesMemoryAndReset ==
  [][ ControlStep
        => /\ UNCHANGED <<temp_setpoint, tuning, Kpos, Kneg, T_factor>>
           /\ temp_actual' = IF ExecutedWake /\ ResetDue THEN temp_setpoint
                                                         ELSE temp_actual ]_vars

\* applyControl has run in the period of the reset, on a process variable
\* that the reset took from a setpoint received before
ControlWritesWitness ==
  /\ ev.op = "apply" /\ ev.reset
  /\ temp_setpoint # FInt(25)
  /\ temp_actual = temp_setpoint

\* a step of mqtt_task: a message handled, a line of
\* recalculateCoefficients, a call of connectMQTT, a WiFi.reconnect()
CommStep ==
  \/ MessageStep
  \/ mq_pc' # mq_pc
  \/ (ev' # ev /\ ev'.op \in {"connect", "wifi"})

\* C22: no step of mqtt_task changes the output, the previous error, the
\* sample index, the warm-start flag or the servo position, and every step
\* that changes one of them is a step of control_task
CommLeavesMemory ==
  [][ /\ CommStep => UNCHANGED <<memory, pos_deg>>
      /\ <<memory, pos_deg>>' # <<memory, pos_deg>> => ControlStep ]_vars

\* a process-variable message was stored after periods that had moved the
\* output away from its value of the start
CommLeavesMemoryWitness ==
  /\ ev.op = "msg" /\ ev.topic = TOPIC_PV
  /\ Decodes(ev.payload)
  /\ temp_actual = Decoded(ev.payload).value
  /\ sampleIndex >= 2
  /\ u_logic # FInt(25)

\* C23: whenever control_task waits for its next period, after setup and
\* after every executed or skipped period, pos_deg == scaleToDegrees(u_logic)
PositionTracksOutput ==
  ctl_pc = "delay" => FEq(pos_deg, scaleToDegrees(u_logic))

\* the same for every output that is a number
PositionTracksOutputOnNumbers ==
  (ctl_pc = "delay" /\ ~isnan(u_logic)) => FEq(pos_deg, scaleToDegrees(u_logic))

\* the angle limited to [0, 180]
ClampDegrees(x) ==
  IF FLt(x, FInt(0)) THEN FInt(0) ELSE IF FGt(x, FInt(180)) THEN FInt(180) ELSE x

\* C24: after every call of setServoDegrees the stored position is the
\* argument limited to [0, 180], the published position is that value to
\* one decimal, not inverted, and the value passed to servo.write is 180
\* minus the integer nearest to the stored position and lies in 0..180
ServoInversion ==
  ev.op = "servo" =>
    /\ FLe(FInt(0), pos_deg) /\ FLe(pos_deg, FInt(180))
    /\ FEq(pos_deg, ClampDegrees(ev.deg))
    /\ retained[1] = Decimals(pos_deg, 1)
    /\ ev.cmd \in 0..180
    /\ \E n \in 0..180 :
         /\ ev.cmd = 180 - n
         /\ FLe(FSub(FInt(n), FDec(5, 0 - 1)), pos_deg)
         /\ FLt(pos_deg, FAdd(FInt(n), FDec(5, 0 - 1)))

\* the same for every argument that is a number
ServoInversionOnNumbers ==
  (ev.op = "servo" /\ ~isnan(ev.deg)) => ServoInversion

\* C25: Kp and Ti are above zero at the start and after every step; a step
\* that changes one of them is the handling of a message on its topic with
\* a decoded value above zero; and recalculateCoefficients, called after
\* such a message, passes its own test and goes on to write the coefficients
TuningStaysPositive ==
  /\ FGt(Kp, FInt(0)) /\ FGt(Ti, FInt(0))
  /\ [][ /\ FGt(Kp', FInt(0)) /\ FGt(Ti', FInt(0))
         /\ Kp' # Kp => /\ SignalMessage(TOPIC_KP)
                        /\ FGt(Decoded(ev'.payload).value, FInt(0))
         /\ Ti' # Ti => /\ SignalMessage(TOPIC_TI)
                        /\ FGt(Decoded(ev'.payload).value, FInt(0))
         /\ ((SignalMessage(TOPIC_KP) \/ SignalMessage(TOPIC_TI))
               /\ FGt(Decoded(ev'.payload).value, FInt(0)))
             => (CoefficientsValid(Kp', Ti') /\ mq_pc' = "kpos") ]_vars

\* a Ti message was accepted and recalculateCoefficients has passed its
\* test and is about to write Kpos
TuningStaysPositiveWitness ==
  /\ ev.op = "msg" /\ ev.topic = TOPIC_TI
  /\ mq_pc = "kpos"
  /\ Ti = Decoded(ev.payload).value
  /\ Ti # FInt(250)

\* C26: applyControl leaves the output, the previous error and the position
\* that follow from the state before it, whatever becomes of the publish
\* of the period; the next step of control_task is then the log step, which
\* adds 1 to sampleIndex and leaves the other three alone; and no step of
\* control_task other than applyControl with publishState publishes
PublishOutcomeIgnored ==
  [][ /\ ApplyStep
           => /\ ev'.out \in {"sent", "failed", "none"}
              /\ <<u_logic', error_k_1', pos_deg'>>
                   = applyControl(u_logic, error_k_1, temp_setpoint,
                                  temp_actual, Kpos, Kneg)
              /\ sampleIndex' = sampleIndex
      /\ (ControlStep /\ ctl_pc = "publish")
           => /\ LogStep
              /\ sampleIndex' = sampleIndex + 1
              /\ UNCHANGED <<u_logic, error_k_1, pos_deg>>
      /\ (ControlStep /\ ~ApplyStep) => retained' = retained ]_vars

\* a period after the first has computed its step and its publish has
\* failed
PublishOutcomeWitness ==
  /\ ev.op = "apply" /\ ev.out = "failed"
  /\ ctl_pc = "publish"
  /\ sampleIndex >= 1
  /\ u_logic # FInt(25)

\* C27: the applyControl of the period in which the reset block has run
\* leaves u_logic == 50 and error_k_1 == 0, whatever messages were handled
\* before it
WarmStartPeriodEnd ==
  [][ (ApplyStep /\ ev.reset)
        => /\ FEq(u_logic', FInt(50))
           /\ FEq(error_k_1', FInt(0)) ]_vars

\* the same for coefficients that are numbers
WarmStartPeriodEndOnNumbers ==
  [][ (ApplyStep /\ ev.reset /\ isfinite(Kpos) /\ isfinite(Kneg))
        => /\ FEq(u_logic', FInt(50))
           /\ FEq(error_k_1', FInt(0)) ]_vars

\* C28: whenever control_task waits for its next period the warm-start
\* flag is set exactly when sampleIndex is 6 or more, and a period that
\* executes with sampleIndex = 5 has the flag set by the time it calls
\* applyControl
WarmStartFlagAgrees ==
  /\ ctl_pc = "delay" => (initial_state_reset <=> sampleIndex >= 6)
  /\ (ctl_pc \in {"apply", "publish"} /\ sampleIndex = 5) => initial_state_reset

\* the period of the reset has ended and control_task waits for the next
WarmStartFlagWitness ==
  /\ ctl_pc = "delay" /\ ev.op = "led"
  /\ sampleIndex = 6
  /\ initial_state_reset

\* the runs are followed up to MaxSamples executed periods, past the warm
\* start
AllSamplesDone == sampleIndex = MaxSamples /\ initial_state_reset

\* C29: if wakeups keep finding the link established, as long as the runs
\* are followed, and in particular if the link stays up from some moment
\* on, the executed periods follow one another up to the last and the warm
\* start fires; every wakeup that finds the link established is followed by
\* the step and the log line of its period; and a wakeup that finds the
\* link established, after periods that were skipped or not, starts from
\* the output, previous error, sample index and position that the last
\* executed period left
ControllerLive ==
  /\ []<>(ctl_pc = "apply" \/ sampleIndex = MaxSamples) => <>AllSamplesDone
  /\ <>[]LinkEstablished => <>AllSamplesDone
  /\ (ctl_pc = "apply") ~> (ctl_pc = "led")
  /\ [][ ExecutedWake
           => <<u_logic, error_k_1, sampleIndex, pos_deg>> = held ]_vars

\* the session was established again while control_task waited with five
\* executed periods behind it: the next wakeup is the one of the warm start
ControllerLiveWitness ==
  /\ ev.op = "connect" /\ ev.ok
  /\ wifi /\ ctl_pc = "delay"
  /\ sampleIndex = 5 /\ ~initial_state_reset
  /\ held = <<u_logic, error_k_1, sampleIndex, pos_deg>>

====
